---- MODULE Spec2Model ----
(***************************************************************************)
(* A model of cifs (src/cifs): the volume layout written by                *)
(* cifsCreateFileSystem, the in-memory context built by                    *)
(* cifsMountFileSystem, the file operations of cifs.c and the bit          *)
(* allocator helpers (cifsFindFreeBlock, cifsFlipBit, cifsSetBit,          *)
(* cifsClearBit).                                                          *)
(*                                                                         *)
(* A byte array of n bytes is a record [len |-> n, fill |-> b, set |-> f]:  *)
(* byte i (0 <= i < n) is f[i] where i is in DOMAIN f and b elsewhere, and *)
(* f never maps an index to b, so that equal arrays are equal records.     *)
(***************************************************************************)
EXTENDS Integers, Sequences, FiniteSets, TLC

(***************************************************************************)
(* Program constants (cifs.h).                                             *)
(***************************************************************************)
CIFS_BLOCK_SIZE == 256
CIFS_NUMBER_OF_BLOCKS == 65535
CIFS_INDEX_SIZE == 127
CIFS_INITIAL_VALUE_OF_THE_UNIQUE_FILE_IDENTIFIER == 0
CIFS_REGISTRY_SIZE == 65537

\* #define CIFS_INVALID_INDEX CIFS_NUMBER_OF_BLOCKS
CIFS_INVALID_INDEX == CIFS_NUMBER_OF_BLOCKS

\* #define CIFS_SUPERBLOCK_INDEX CIFS_NUMBER_OF_BLOCKS/8/CIFS_BLOCK_SIZE
\* The macro has no parentheses: where it is used it expands textually, so
\* "CIFS_SUPERBLOCK_INDEX / 8" is ((N/8)/B)/8 and "CIFS_SUPERBLOCK_INDEX + 1"
\* is ((N/8)/B) + 1.  Both are what the parenthesised value would give, as
\* integer division associates to the left.
CIFS_SUPERBLOCK_INDEX == (CIFS_NUMBER_OF_BLOCKS \div 8) \div CIFS_BLOCK_SIZE

\* the content type enumeration
CIFS_FOLDER_CONTENT_TYPE == 0
CIFS_FILE_CONTENT_TYPE == 1
CIFS_INDEX_CONTENT_TYPE == 2
CIFS_DATA_CONTENT_TYPE == 3
CIFS_INVALID_CONTENT_TYPE == 4

\* width of CIFS_INDEX_TYPE (unsigned short)
IndexModulus == 65536

(***************************************************************************)
(* Bounds of the model.                                                    *)
(***************************************************************************)
\* bytes of the bit vector the bit allocator helpers are exercised on
BvLen == 2
\* bytes of memory modelled behind that bit vector
BeyondLen == 1

(***************************************************************************)
(* Bytes and the C bitwise operators on unsigned char.                     *)
(***************************************************************************)
\* bit k of byte b, k counted from the least significant bit
BitOf(b, k) == (b \div (2 ^ k)) % 2

And8(a, b) ==
    LET f[k \in 0..8] == IF k = 8 THEN 0
                         ELSE (2 ^ k) * (BitOf(a, k) * BitOf(b, k)) + f[k + 1]
    IN f[0]

Or8(a, b) ==
    LET f[k \in 0..8] ==
            IF k = 8 THEN 0
            ELSE (2 ^ k) * (IF BitOf(a, k) + BitOf(b, k) > 0 THEN 1 ELSE 0) + f[k + 1]
    IN f[0]

Xor8(a, b) ==
    LET f[k \in 0..8] == IF k = 8 THEN 0
                         ELSE (2 ^ k) * ((BitOf(a, k) + BitOf(b, k)) % 2) + f[k + 1]
    IN f[0]

\* ~m, as it is used: and-ed into an unsigned char
Not8(m) == 255 - m

\* mask >> n for an unsigned char mask
ShiftRight(mask, n) == mask \div (2 ^ n)

ByteLen(a) == a.len

\* a[i]
ByteAt(a, i) == IF i \in DOMAIN a.set THEN a.set[i] ELSE a.fill

\* a[i] = v
Store(a, i, v) ==
    IF v = a.fill
    THEN [a EXCEPT !.set = [k \in (DOMAIN a.set) \ {i} |-> a.set[k]]]
    ELSE [a EXCEPT !.set = [k \in (DOMAIN a.set) \cup {i} |->
                               IF k = i THEN v ELSE a.set[k]]]

\* n bytes, all of them v
Filled(n, v) == [len |-> n, fill |-> v, set |-> [k \in {} |-> 0]]

\* memset(a, v, n)
RECURSIVE Memset(_, _, _)
Memset(a, v, n) == IF n = 0 THEN a ELSE Memset(Store(a, n - 1, v), v, n - 1)

\* the bytes a[from .. from + n - 1] as an array of their own
Slice(a, from, n) ==
    [len |-> n, fill |-> a.fill,
     set |-> [j \in {k - from : k \in {x \in DOMAIN a.set : x >= from /\ x < from + n}}
                |-> a.set[from + j]]]

(***************************************************************************)
(* The three bit manipulation functions.  bitIndex is a CIFS_INDEX_TYPE;   *)
(* the byte it names must lie in the array (the callers' obligation).      *)
(***************************************************************************)
\* cifsFlipBit with the mask counted from the low end of the byte
FlipBitFromLowEnd(bitvector, bitIndex) ==
    LET blockIndex == bitIndex \div 8
        bitShift == bitIndex % 8
        mask == 1
    IN Store(bitvector, blockIndex,
             Xor8(ByteAt(bitvector, blockIndex), mask * (2 ^ bitShift)))

cifsFlipBit(bitvector, bitIndex) ==
    LET blockIndex == bitIndex \div 8
        bitShift == bitIndex % 8
        mask == 128
    IN Store(bitvector, blockIndex, Xor8(ByteAt(bitvector, blockIndex), ShiftRight(mask, bitShift)))

cifsSetBit(bitvector, bitIndex) ==
    LET blockIndex == bitIndex \div 8
        bitShift == bitIndex % 8
        mask == 128
    IN Store(bitvector, blockIndex, Or8(ByteAt(bitvector, blockIndex), ShiftRight(mask, bitShift)))

\* cifsClearBit with the complement of the mask forgotten
ClearBitKeepsOnlyMask(bitvector, bitIndex) ==
    LET blockIndex == bitIndex \div 8
        bitShift == bitIndex % 8
        mask == 128
    IN Store(bitvector, blockIndex,
             And8(ByteAt(bitvector, blockIndex), ShiftRight(mask, bitShift)))

cifsClearBit(bitvector, bitIndex) ==
    LET blockIndex == bitIndex \div 8
        bitShift == bitIndex % 8
        mask == 128
    IN Store(bitvector, blockIndex, And8(ByteAt(bitvector, blockIndex), Not8(ShiftRight(mask, bitShift))))

(***************************************************************************)
(* cifsFindFreeBlock takes a pointer and no length.  The memory it reads   *)
(* is the array followed by whatever lies behind it: `beyond' is that      *)
(* memory (a sequence of bytes), and a read behind `beyond' is a read of   *)
(* an address the model knows nothing about.                               *)
(***************************************************************************)
Mapped(bitvector, beyond, i) == i < ByteLen(bitvector) + Len(beyond)

MemAt(bitvector, beyond, i) ==
    IF i < ByteLen(bitvector) THEN ByteAt(bitvector, i)
    ELSE beyond[i - ByteLen(bitvector) + 1]

\* while (bitvector[i] == 0xFF) i += 1;
RECURSIVE SkipFullBytes(_, _, _)
SkipFullBytes(bitvector, beyond, i) ==
    IF Mapped(bitvector, beyond, i) /\ MemAt(bitvector, beyond, i) = 255
    THEN SkipFullBytes(bitvector, beyond, i + 1)
    ELSE i

\* while (bitvector[i] & mask) { mask >>= 1; ++j; }
RECURSIVE SkipSetBits(_, _, _)
SkipSetBits(byte, mask, j) ==
    IF And8(byte, mask) # 0
    THEN SkipSetBits(byte, ShiftRight(mask, 1), j + 1)
    ELSE j

\* cifsFindFreeBlock with the bytes counted as if they held one bit each
FindFreeBlockForgetsByteWidth(bitvector, beyond) ==
    LET i == SkipFullBytes(bitvector, beyond, 0)
    IN IF ~Mapped(bitvector, beyond, i)
       THEN [ret |-> 0, read |-> i + 1, unmapped |-> TRUE]
       ELSE LET j == SkipSetBits(MemAt(bitvector, beyond, i), 128, 0)
            IN [ret |-> (i + j) % IndexModulus, read |-> i + 1,
                unmapped |-> FALSE]

\* The result: the value returned (a CIFS_INDEX_TYPE), the number of bytes
\* read from bitvector[0] on, and whether the scan left the memory the
\* model knows (then nothing is known of the value returned).
cifsFindFreeBlock(bitvector, beyond) ==
    LET i == SkipFullBytes(bitvector, beyond, 0)
    IN IF ~Mapped(bitvector, beyond, i)
       THEN [ret |-> 0, read |-> i + 1, unmapped |-> TRUE]
       ELSE LET j == SkipSetBits(MemAt(bitvector, beyond, i), 128, 0)
            IN [ret |-> ((i * 8) + j) % IndexModulus, read |-> i + 1,
                unmapped |-> FALSE]

(***************************************************************************)
(* The state of testSamples(): the local bit vector the helpers are        *)
(* applied to, the vector and bit index it started from, the calls still   *)
(* to make, the calls made and what cifsFindFreeBlock returned.            *)
(***************************************************************************)
VARIABLES testBitVector, vec0, bitIndex0, todo, done, found

bitVars == <<testBitVector, vec0, bitIndex0, todo, done, found>>

(***************************************************************************)
(* The state of the file system.                                           *)
(***************************************************************************)
VARIABLES
    volume,         \* the volume file: block number -> block, for the blocks written
    cifsVolume,     \* the FILE* : "null", "open" or "closed"
    context,        \* cifsContext: "null", "live" or "freed"
    superblock,     \* *cifsContext->superblock
    bitvector,      \* cifsContext->bitvector[0 .. n-1]
    registry,       \* cifsContext->registry: the entries it leads to
    processList,    \* cifsContext->processList: the process control blocks it leads to
    fuseContext,    \* *fuseContext, as the harness filled it
    procUmask,      \* the file mode creation mask of the process (umask(2))
    clock,          \* CLOCK_MONOTONIC, in seconds
    last,           \* the last call: its name, arguments, result and outputs
    created,        \* history: the first MaxCreated cifsCreateFile calls that
                    \* returned CIFS_NO_ERROR since the volume was made
    beforeCreate    \* history: the cifsCreateFile just returned (and the
                    \* cifsDeleteFile that followed it), with the bit vector
                    \* and the volume it was called on

fsVars == <<volume, cifsVolume, context, superblock, bitvector,
            registry, processList, fuseContext, procUmask, clock, last, created,
            beforeCreate>>

\* the build the harness is written for: #define NO_FUSE_DEBUG
NO_FUSE_DEBUG == TRUE

\* seconds CLOCK_MONOTONIC can reach
MaxTime == 1
\* entries kept in the history of successful cifsCreateFile calls
MaxCreated == 2

\* S_IRUSR | S_IWUSR (0600), the umask the harness puts in the context
S_IRUSR_S_IWUSR == 384
\* the umask the process inherits: 022
InheritedUmasks == {18}

\* the contexts the harness supplies: uid and pid are 1000 + rand() % 10 + 1
Contexts ==
    { [valid |-> TRUE, uid |-> u, pid |-> u, umask |-> S_IRUSR_S_IWUSR] :
        u \in {1001, 1002} }

FreedContext == [valid |-> FALSE, uid |-> 0, pid |-> 0, umask |-> 0]

Paths == {"/a", "/a/b"}
FileTypes == {CIFS_FOLDER_CONTENT_TYPE, CIFS_FILE_CONTENT_TYPE}

\* what an uninitialised CIFS_INDEX_TYPE of a local block may hold
GarbageIndex == {0, CIFS_SUPERBLOCK_INDEX + 1}
\* the byte a malloc'ed, never written array may be filled with
GarbageByte == {0, 165, 255}

NoSuperblock ==
    [cifsNextUniqueIdentifier |-> 0, cifsNumberOfBlocks |-> 0,
     cifsDataBlockSize |-> 0, cifsRootNodeIndex |-> 0]

NoBytes == Filled(0, 0)

NoDescriptor ==
    [identifier |-> 0, type |-> CIFS_INVALID_CONTENT_TYPE, name |-> "",
     creationTime |-> 0, lastAccessTime |-> 0, lastModificationTime |-> 0,
     accessRights |-> 0, owner |-> 0, size |-> 0]

\* the access rights asked of cifsOpenFile: S_IRUSR, S_IRUSR | S_IWUSR
AccessMasks == {256, S_IRUSR_S_IWUSR}

\* the file handles (int) the calls are made with
Handles == {0, 1}
\* what the caller's CIFS_FILE_HANDLE_TYPE holds when no call has assigned it
GarbageHandle == Handles

\* the contents written: strings of bytes, without their terminating '\0'
Contents == {<<>>, <<104, 105>>}
\* what the caller's char* designates when no call has assigned it
GarbageBuffer == Contents \cup {<<63>>}

NoCall == [op |-> "none", path |-> "", type |-> CIFS_INVALID_CONTENT_TYPE,
           result |-> "CIFS_NO_ERROR", fd |-> NoDescriptor,
           access |-> 0, handle |-> 0, buffer |-> <<>>, pid |-> 0]

\* a call that takes a path and a content type
Call(op, path, type, result, fd) ==
    [op |-> op, path |-> path, type |-> type, result |-> result, fd |-> fd,
     access |-> 0, handle |-> 0, buffer |-> <<>>, pid |-> 0]

\* a call that takes or gives a file handle, made by process pid: handle is
\* the handle passed, or what the caller finds in *fileHandle at the return;
\* buffer is the buffer passed, or what the caller finds behind *readBuffer
\* at the return; path and access are those asked for (cifsOpenFile), or
\* those the handle passed was opened with (see HeldAccess, HeldPath)
HandleCall(op, path, access, handle, buffer, result, pid) ==
    [op |-> op, path |-> path, type |-> CIFS_INVALID_CONTENT_TYPE,
     result |-> result, fd |-> NoDescriptor,
     access |-> access, handle |-> handle, buffer |-> buffer, pid |-> pid]

\* the access the caller holds the handle with, as the calls told it: the
\* access asked for in the call just before, if that was a cifsOpenFile of
\* this process that returned CIFS_NO_ERROR and left this handle; else none
HeldAccess(call, pid, handle) ==
    IF /\ call.op = "cifsOpenFile"
       /\ call.result = "CIFS_NO_ERROR"
       /\ call.pid = pid
       /\ call.handle = handle
    THEN call.access
    ELSE 0

\* the path the caller holds the handle for, in the same way; else none
HeldPath(call, pid, handle) ==
    IF /\ call.op = "cifsOpenFile"
       /\ call.result = "CIFS_NO_ERROR"
       /\ call.pid = pid
       /\ call.handle = handle
    THEN call.path
    ELSE ""

NoSnapshot ==
    [stage |-> "none", path |-> "", pid |-> 0, parentOpen |-> FALSE,
     parentMade |-> FALSE, bitvector |-> NoBytes,
     volume |-> [b \in {} |-> NoBytes]]

\* the folder a path names its last component in
ParentPath(path) == IF path = "/a/b" THEN "/a" ELSE "/"

(***************************************************************************)
(* The block device.                                                       *)
(***************************************************************************)
\* cifsWriteBlock with the fseek forgotten: the stream is at its start
WriteBlockForgetsSeek(vol, content, blockNumber) ==
    [b \in (DOMAIN vol) \cup {0} |->
        IF b = 0 THEN content ELSE vol[b]]

\* fseek to blockNumber * CIFS_BLOCK_SIZE, fwrite of CIFS_BLOCK_SIZE bytes
cifsWriteBlock(vol, content, blockNumber) ==
    [b \in (DOMAIN vol) \cup {blockNumber} |->
        IF b = blockNumber THEN content ELSE vol[b]]

ZeroBlock == [tag |-> "bytes", bytes |-> Filled(CIFS_BLOCK_SIZE, 0)]

\* fseek, fread; a block of the file that was never written is a hole of zeros
cifsReadBlock(vol, blockNumber) ==
    IF blockNumber \in DOMAIN vol THEN vol[blockNumber] ELSE ZeroBlock

\* umask(2): sets the mask of the process to mask & 0777, returns the old one
UmaskResult(mask) == [old |-> procUmask, new |-> mask % 512]

(***************************************************************************)
(* Init: no volume file, no context, the harness has made its context.     *)
(***************************************************************************)
FsInit ==
    /\ volume = [b \in {} |-> ZeroBlock]
    /\ cifsVolume = "null"
    /\ context = "null"
    /\ superblock = NoSuperblock
    /\ bitvector = NoBytes
    /\ registry = {}
    /\ processList = <<>>
    /\ fuseContext \in Contexts
    /\ procUmask \in InheritedUmasks
    /\ clock = 0
    /\ last = NoCall
    /\ created = <<>>
    /\ beforeCreate = NoSnapshot

(***************************************************************************)
(* cifsCreateFileSystem                                                    *)
(***************************************************************************)
\* calloc(CIFS_NUMBER_OF_BLOCKS / 8, 1), then
\* memset(bitvector, 0xFF, CIFS_SUPERBLOCK_INDEX / 8)
FreshBitvector ==
    Memset(Filled(CIFS_NUMBER_OF_BLOCKS \div 8, 0), 255, CIFS_SUPERBLOCK_INDEX \div 8)

\* the superblock as initialised, before the root takes its identifier
FreshSuperblock ==
    [cifsNextUniqueIdentifier |-> CIFS_INITIAL_VALUE_OF_THE_UNIQUE_FILE_IDENTIFIER,
     cifsDataBlockSize |-> CIFS_BLOCK_SIZE,
     cifsNumberOfBlocks |-> CIFS_NUMBER_OF_BLOCKS - 1,
     cifsRootNodeIndex |-> CIFS_SUPERBLOCK_INDEX + 1]

\* identifier = cifsNextUniqueIdentifier++
RootIdentifier(sb) == sb.cifsNextUniqueIdentifier

\* the root folder's descriptor block; parent_block_ref and file_block_ref
\* are never assigned: they hold what the stack held
RootFolderBlock(sb, rights, owner, sec, parentRef, selfRef) ==
    [tag |-> "block", type |-> CIFS_FOLDER_CONTENT_TYPE,
     fileDescriptor |->
        [identifier |-> RootIdentifier(sb),
         type |-> CIFS_FOLDER_CONTENT_TYPE,
         name |-> "/",
         accessRights |-> rights,
         owner |-> owner,
         size |-> 0,
         creationTime |-> sec,
         lastAccessTime |-> sec,
         lastModificationTime |-> sec,
         block_ref |-> sb.cifsRootNodeIndex + 1,
         parent_block_ref |-> parentRef,
         file_block_ref |-> selfRef]]

RootFolderIndexBlock ==
    [tag |-> "block", type |-> CIFS_INDEX_CONTENT_TYPE,
     index |-> [i \in 0..(CIFS_INDEX_SIZE - 1) |-> CIFS_INVALID_INDEX]]

\* block i of the bit vector region: bytes i*CIFS_BLOCK_SIZE + j of the array
BitvectorBlock(bv, i) ==
    [tag |-> "bytes", bytes |-> Slice(bv, i * CIFS_BLOCK_SIZE, CIFS_BLOCK_SIZE)]

\* for (i = 0; i < CIFS_SUPERBLOCK_INDEX; i++) cifsWriteBlock(block, i)
RECURSIVE WriteBitvectorBlocks(_, _, _)
WriteBitvectorBlocks(vol, bv, i) ==
    IF i < CIFS_SUPERBLOCK_INDEX
    THEN WriteBitvectorBlocks(cifsWriteBlock(vol, BitvectorBlock(bv, i), i), bv, i + 1)
    ELSE vol

cifsCreateFileSystem ==
    /\ cifsVolume # "open"
    /\ fuseContext.valid
    /\ \E parentRef \in GarbageIndex, selfRef \in GarbageIndex :
        LET sb0 == FreshSuperblock
            bv1 == cifsSetBit(FreshBitvector, CIFS_SUPERBLOCK_INDEX)
            um == UmaskResult(fuseContext.umask)
            root == RootFolderBlock(sb0, um.old, fuseContext.uid, clock,
                                    parentRef, selfRef)
            sb1 == [sb0 EXCEPT !.cifsNextUniqueIdentifier = @ + 1]
            \* fopen(name, "w+") truncates the file
            v0 == [b \in {} |-> ZeroBlock]
            v1 == cifsWriteBlock(v0, root, sb1.cifsRootNodeIndex)
            bv2 == cifsSetBit(bv1, sb1.cifsRootNodeIndex)
            v2 == cifsWriteBlock(v1, RootFolderIndexBlock, sb1.cifsRootNodeIndex + 1)
            bv3 == cifsSetBit(bv2, sb1.cifsRootNodeIndex + 1)
            v3 == cifsWriteBlock(v2, [tag |-> "superblock", sb |-> sb1],
                                 CIFS_SUPERBLOCK_INDEX)
            v4 == WriteBitvectorBlocks(v3, bv3, 0)
            v5 == cifsWriteBlock(v4, ZeroBlock, CIFS_NUMBER_OF_BLOCKS - 1)
        IN /\ volume' = v5
           /\ superblock' = sb1
           /\ bitvector' = bv3
           /\ procUmask' = um.new
    /\ cifsVolume' = "closed"
    /\ context' = "live"
    /\ last' = Call("cifsCreateFileSystem", "", CIFS_INVALID_CONTENT_TYPE,
                    "CIFS_NO_ERROR", NoDescriptor)
    /\ created' = <<>>
    /\ beforeCreate' = NoSnapshot
    /\ UNCHANGED bitVars
    /\ UNCHANGED <<registry, processList, fuseContext, clock>>

(***************************************************************************)
(* cifsMountFileSystem: reads the superblock, allocates the bit vector     *)
(* and leaves it as malloc gave it (reading it from the volume and         *)
(* building the registry are TODO in the source).                          *)
(***************************************************************************)
cifsMountFileSystem ==
    /\ cifsVolume = "closed"
    /\ LET sb == cifsReadBlock(volume, CIFS_SUPERBLOCK_INDEX).sb
       IN /\ superblock' = sb
          /\ \E g \in GarbageByte :
                bitvector' = Filled(sb.cifsNumberOfBlocks \div 8, g)
    /\ cifsVolume' = "open"
    /\ context' = "live"
    /\ last' = Call("cifsMountFileSystem", "", CIFS_INVALID_CONTENT_TYPE,
                    "CIFS_NO_ERROR", NoDescriptor)
    /\ beforeCreate' = NoSnapshot
    /\ UNCHANGED bitVars
    /\ UNCHANGED <<volume, registry, processList, fuseContext, procUmask,
                   clock, created>>

(***************************************************************************)
(* cifsUmountFileSystem                                                    *)
(***************************************************************************)
cifsUmountFileSystem ==
    /\ cifsVolume = "open"
    /\ context = "live"
    /\ fuseContext' = IF NO_FUSE_DEBUG THEN FreedContext ELSE fuseContext
    /\ volume' = cifsWriteBlock(volume, [tag |-> "superblock", sb |-> superblock],
                                CIFS_SUPERBLOCK_INDEX)
    /\ cifsVolume' = "closed"
    /\ context' = "freed"
    /\ last' = Call("cifsUmountFileSystem", "", CIFS_INVALID_CONTENT_TYPE,
                    "CIFS_NO_ERROR", NoDescriptor)
    /\ beforeCreate' = NoSnapshot
    /\ UNCHANGED bitVars
    /\ UNCHANGED <<superblock, bitvector, registry, processList, procUmask,
                   clock, created>>

(***************************************************************************)
(* cifsCreateFile.  The body ends at its return statement; the statements  *)
(* that follow the closing brace in the source belong to no function and   *)
(* never run.  filePath and type are not read.  block_ref is set from      *)
(* superblock->freeInBlk, which is no member of the superblock: the local  *)
(* descriptor is dropped at the return, and the model leaves block_ref     *)
(* out of it.                                                              *)
(***************************************************************************)
FreeBlkDescriptor(sb, rights, owner, sec) ==
    [identifier |-> sb.cifsNextUniqueIdentifier,
     type |-> CIFS_FILE_CONTENT_TYPE,
     name |-> "file1",
     accessRights |-> rights,
     owner |-> owner,
     size |-> 0,
     creationTime |-> sec,
     lastAccessTime |-> sec,
     lastModificationTime |-> sec]

\* the superblock when cifsCreateFile returns: the counter is incremented in
\* memory, and then the superblock pointer is replaced by a fresh read of
\* the superblock block
SuperblockAfterCreate(sb, vol) ==
    LET incremented == [sb EXCEPT !.cifsNextUniqueIdentifier = @ + 1]
    IN cifsReadBlock(vol, CIFS_SUPERBLOCK_INDEX).sb

cifsCreateFile ==
    /\ cifsVolume = "open"
    /\ context = "live"
    /\ fuseContext.valid
    /\ \E filePath \in Paths, type \in FileTypes :
        LET um == UmaskResult(fuseContext.umask)
            fd == FreeBlkDescriptor(superblock, um.old, fuseContext.uid, clock)
        IN /\ superblock' = SuperblockAfterCreate(superblock, volume)
           /\ procUmask' = um.new
           /\ last' = Call("cifsCreateFile", filePath, type, "CIFS_NO_ERROR", fd)
           /\ created' = IF Len(created) < MaxCreated
                          THEN Append(created, [path |-> filePath,
                                                identifier |-> fd.identifier])
                          ELSE created
           /\ beforeCreate' =
                 [stage |-> "created", path |-> filePath, pid |-> fuseContext.pid,
                  parentOpen |-> /\ last.op = "cifsOpenFile"
                                 /\ last.result = "CIFS_NO_ERROR"
                                 /\ last.path = ParentPath(filePath)
                                 /\ last.pid = fuseContext.pid,
                  parentMade |-> /\ last.op = "cifsCreateFile"
                                 /\ last.result = "CIFS_NO_ERROR"
                                 /\ last.path = ParentPath(filePath)
                                 /\ last.type = CIFS_FOLDER_CONTENT_TYPE,
                  bitvector |-> bitvector, volume |-> volume]
    /\ UNCHANGED bitVars
    /\ UNCHANGED <<volume, cifsVolume, context, bitvector,
                   registry, processList, fuseContext, clock>>

(***************************************************************************)
(* cifsDeleteFile, cifsOpenFile, cifsCloseFile, cifsWriteFile and          *)
(* cifsReadFile: "TODO: implement" in the source; each returns             *)
(* CIFS_NO_ERROR, touches nothing of the context or the volume and assigns *)
(* none of its output parameters.  A call is made on behalf of the process *)
(* of the FUSE context.                                                    *)
(***************************************************************************)
\* cifsDeleteFile with the bit of the root folder's descriptor block flipped
DeleteFileFlipsBit ==
    /\ cifsVolume = "open"
    /\ fuseContext.valid
    /\ \E filePath \in Paths \cup {"/"} :
        /\ last' = Call("cifsDeleteFile", filePath, CIFS_INVALID_CONTENT_TYPE,
                        "CIFS_NO_ERROR", NoDescriptor)
        /\ beforeCreate' =
              IF /\ beforeCreate.stage = "created"
                 /\ beforeCreate.path = filePath
                 /\ beforeCreate.pid = fuseContext.pid
              THEN [beforeCreate EXCEPT !.stage = "deleted"]
              ELSE NoSnapshot
    /\ bitvector' = cifsFlipBit(bitvector, superblock.cifsRootNodeIndex)
    /\ UNCHANGED bitVars
    /\ UNCHANGED <<volume, cifsVolume, context, superblock,
                   registry, processList, fuseContext, procUmask, clock,
                   created>>

cifsDeleteFile ==
    /\ cifsVolume = "open"
    /\ fuseContext.valid
    /\ \E filePath \in Paths \cup {"/"} :
        /\ last' = Call("cifsDeleteFile", filePath, CIFS_INVALID_CONTENT_TYPE,
                        "CIFS_NO_ERROR", NoDescriptor)
        /\ beforeCreate' =
              IF /\ beforeCreate.stage = "created"
                 /\ beforeCreate.path = filePath
                 /\ beforeCreate.pid = fuseContext.pid
              THEN [beforeCreate EXCEPT !.stage = "deleted"]
              ELSE NoSnapshot
    /\ UNCHANGED bitVars
    /\ UNCHANGED <<volume, cifsVolume, context, superblock,
                   bitvector, registry, processList, fuseContext, procUmask, clock,
                   created>>

\* *fileHandle is not assigned: the caller finds in it what it held
cifsOpenFile ==
    /\ cifsVolume = "open"
    /\ fuseContext.valid
    /\ \E filePath \in Paths \cup {"/"}, desiredAccessRights \in AccessMasks,
          fileHandle \in GarbageHandle :
        last' = HandleCall("cifsOpenFile", filePath, desiredAccessRights,
                           fileHandle, <<>>, "CIFS_NO_ERROR", fuseContext.pid)
    /\ beforeCreate' = NoSnapshot
    /\ UNCHANGED bitVars
    /\ UNCHANGED <<volume, cifsVolume, context, superblock,
                   bitvector, registry, processList, fuseContext, procUmask, clock, created>>

cifsCloseFile ==
    /\ cifsVolume = "open"
    /\ fuseContext.valid
    /\ \E fileHandle \in Handles :
        last' = HandleCall("cifsCloseFile", "", 0, fileHandle, <<>>,
                           "CIFS_NO_ERROR", fuseContext.pid)
    /\ beforeCreate' = NoSnapshot
    /\ UNCHANGED bitVars
    /\ UNCHANGED <<volume, cifsVolume, context, superblock,
                   bitvector, registry, processList, fuseContext, procUmask, clock, created>>

cifsWriteFile ==
    /\ cifsVolume = "open"
    /\ fuseContext.valid
    /\ \E fileHandle \in Handles, writeBuffer \in Contents :
        last' = HandleCall("cifsWriteFile",
                           HeldPath(last, fuseContext.pid, fileHandle),
                           HeldAccess(last, fuseContext.pid, fileHandle),
                           fileHandle, writeBuffer, "CIFS_NO_ERROR",
                           fuseContext.pid)
    /\ beforeCreate' = NoSnapshot
    /\ UNCHANGED bitVars
    /\ UNCHANGED <<volume, cifsVolume, context, superblock,
                   bitvector, registry, processList, fuseContext, procUmask, clock,
                   created>>

\* *readBuffer is not assigned: the caller finds behind it what was there
cifsReadFile ==
    /\ cifsVolume = "open"
    /\ fuseContext.valid
    /\ \E fileHandle \in Handles, readBuffer \in GarbageBuffer :
        last' = HandleCall("cifsReadFile", "", 0, fileHandle, readBuffer,
                           "CIFS_NO_ERROR", fuseContext.pid)
    /\ beforeCreate' = NoSnapshot
    /\ UNCHANGED bitVars
    /\ UNCHANGED <<volume, cifsVolume, context, superblock,
                   bitvector, registry, processList, fuseContext, procUmask, clock,
                   created>>

(***************************************************************************)
(* The environment: the harness makes a new context (test_cifs.c), and     *)
(* time passes.                                                            *)
(***************************************************************************)
NewFuseContext ==
    /\ \E c \in Contexts : fuseContext' = c
    /\ fuseContext' # fuseContext
    /\ UNCHANGED bitVars
    /\ UNCHANGED <<volume, cifsVolume, context, superblock,
                   bitvector, registry, processList, procUmask, clock, last, created,
                   beforeCreate>>

Tick ==
    /\ clock < MaxTime
    /\ clock' = clock + 1
    /\ UNCHANGED bitVars
    /\ UNCHANGED <<volume, cifsVolume, context, superblock,
                   bitvector, registry, processList, fuseContext, procUmask, last, created,
                   beforeCreate>>

(***************************************************************************)
(* Spec: the file system, driven as main() of test_cifs.c drives it:       *)
(* cifsCreateFileSystem, cifsMountFileSystem, the file operations,         *)
(* cifsUmountFileSystem.                                                   *)
(***************************************************************************)
NoResult == [ret |-> 0, read |-> 0, unmapped |-> FALSE]

BitIdle ==
    /\ testBitVector = NoBytes
    /\ vec0 = NoBytes
    /\ bitIndex0 = 0
    /\ todo = <<>>
    /\ done = <<>>
    /\ found = NoResult

vars == <<fsVars, bitVars>>

Init == FsInit /\ BitIdle

Next ==
    \/ cifsCreateFileSystem
    \/ cifsMountFileSystem
    \/ cifsUmountFileSystem
    \/ cifsCreateFile
    \/ cifsDeleteFile
    \/ cifsOpenFile
    \/ cifsCloseFile
    \/ cifsWriteFile
    \/ cifsReadFile
    \/ NewFuseContext
    \/ Tick

Spec == Init /\ [][Next]_vars

(***************************************************************************)
(* BitSpec: the helpers applied to every bit vector of BvLen bytes drawn   *)
(* from ByteSamples, in the way testSamples() applies them: up to two      *)
(* calls of flip / set / clear on one bit index, then cifsFindFreeBlock.   *)
(***************************************************************************)
\* 0xFF, 0x00, 0x7F, 0xFE, 0xF7 (0xFF with bit 44 % 8 flipped), 0xA5
ByteSamples == {255, 0, 127, 254, 247, 165}

BitOps == {"flip", "set", "clear"}

Programs == {<<>>} \cup {<<a>> : a \in BitOps} \cup {<<a, b>> : a, b \in BitOps}

FsIdle ==
    /\ FsInit
    /\ fuseContext.uid = 1001

BitInit ==
    /\ FsIdle
    /\ \E f \in [0..(BvLen - 1) -> ByteSamples] :
           vec0 = [len |-> BvLen, fill |-> 0,
                   set |-> [k \in {x \in 0..(BvLen - 1) : f[x] # 0} |-> f[k]]]
    /\ testBitVector = vec0
    /\ bitIndex0 \in 0..(8 * BvLen - 1)
    /\ todo \in Programs
    /\ done = <<>>
    /\ found = NoResult

TestFlipBit ==
    /\ todo # <<>>
    /\ Head(todo) = "flip"
    /\ testBitVector' = cifsFlipBit(testBitVector, bitIndex0)
    /\ todo' = Tail(todo)
    /\ done' = Append(done, "flip")
    /\ UNCHANGED <<vec0, bitIndex0, found>>
    /\ UNCHANGED fsVars

TestSetBit ==
    /\ todo # <<>>
    /\ Head(todo) = "set"
    /\ testBitVector' = cifsSetBit(testBitVector, bitIndex0)
    /\ todo' = Tail(todo)
    /\ done' = Append(done, "set")
    /\ UNCHANGED <<vec0, bitIndex0, found>>
    /\ UNCHANGED fsVars

TestClearBit ==
    /\ todo # <<>>
    /\ Head(todo) = "clear"
    /\ testBitVector' = cifsClearBit(testBitVector, bitIndex0)
    /\ todo' = Tail(todo)
    /\ done' = Append(done, "clear")
    /\ UNCHANGED <<vec0, bitIndex0, found>>
    /\ UNCHANGED fsVars

TestFindFreeBlock ==
    /\ todo = <<>>
    /\ found = NoResult
    /\ \E beyond \in [1..BeyondLen -> ByteSamples] :
           found' = cifsFindFreeBlock(testBitVector, beyond)
    /\ UNCHANGED <<testBitVector, vec0, bitIndex0, todo, done>>
    /\ UNCHANGED fsVars

BitNext == TestFlipBit \/ TestSetBit \/ TestClearBit \/ TestFindFreeBlock

BitSpec == BitInit /\ [][BitNext]_vars

(***************************************************************************)
(* What the claims speak of.                                               *)
(***************************************************************************)
\* bit i of a bit vector: byte i/8 under the mask 0x80 >> (i mod 8)
BitIsSet(a, i) == i \div 8 < ByteLen(a) /\ BitOf(ByteAt(a, i \div 8), 7 - (i % 8)) = 1

BitIndices(a) == 0..(8 * ByteLen(a) - 1)

ClearBits(a) == {i \in BitIndices(a) : ~BitIsSet(a, i)}

FoundRan == found.read > 0

Mounted == cifsVolume = "open" /\ context = "live"

\* the number of blocks that hold the bit vector
bitvectorBlocks == CIFS_SUPERBLOCK_INDEX

BlockNumbers == 0..(CIFS_NUMBER_OF_BLOCKS - 1)

IsDescriptor(blk) ==
    /\ blk.tag = "block"
    /\ blk.type \in {CIFS_FOLDER_CONTENT_TYPE, CIFS_FILE_CONTENT_TYPE}

IsIndex(blk) == blk.tag = "block" /\ blk.type = CIFS_INDEX_CONTENT_TYPE

\* cifsCreateFileSystem has written the volume
VolumeMade == CIFS_SUPERBLOCK_INDEX \in DOMAIN volume

\* the root folder's descriptor block and index block on the volume
RootIndex == cifsReadBlock(volume, CIFS_SUPERBLOCK_INDEX).sb.cifsRootNodeIndex

RootDescriptor == cifsReadBlock(volume, RootIndex).fileDescriptor

\* the blocks the slots of an index block refer to
Slots(b) ==
    LET blk == cifsReadBlock(volume, b)
    IN IF IsIndex(blk)
       THEN {blk.index[k] : k \in 0..(CIFS_INDEX_SIZE - 2)} \ {CIFS_INVALID_INDEX}
       ELSE {}

\* the descriptor blocks of the root folder's children
RootChildren ==
    {b \in Slots(RootDescriptor.block_ref) : IsDescriptor(cifsReadBlock(volume, b))}

\* the blocks reachable from the live descriptors: the root's descriptor and
\* index block, its children's descriptors and what these refer to
ReachableBlocks ==
    {RootIndex, RootDescriptor.block_ref}
    \cup RootChildren
    \cup ({cifsReadBlock(volume, b).fileDescriptor.block_ref : b \in RootChildren}
            \ {CIFS_INVALID_INDEX})

FixedMetadata == 0..bitvectorBlocks

\* the last path component of the paths the operations are called with
LeafName(path) == IF path = "/a" THEN "a" ELSE IF path = "/a/b" THEN "b" ELSE path

\* the open-file entries of the process that is calling
CallerOpenFiles ==
    UNION {{pcb.openFiles[k] : k \in 1..Len(pcb.openFiles)} :
              pcb \in {processList[n] : n \in {m \in 1..Len(processList) :
                                                 processList[m].pid = fuseContext.pid}}}

CallerHasOpen(identifier) == \E f \in CallerOpenFiles : f.identifier = identifier

(***************************************************************************)
(* C1: on a mounted volume, bit i of the in-memory bit vector is set if    *)
(* and only if block i is a bit vector block, the superblock, or a block   *)
(* reachable from a live descriptor.  (The code: cifsMountFileSystem       *)
(* leaves the bit vector as malloc gave it, and cifsCreateFileSystem sets  *)
(* only bits 0..23 of the 31 bit vector blocks.)                           *)
(***************************************************************************)
C1_BitvectorTracksUse ==
    Mounted =>
        \A i \in BlockNumbers :
            BitIsSet(bitvector, i) <=> (i \in FixedMetadata \cup ReachableBlocks)

(***************************************************************************)
(* C2: for a bit vector with at least one clear bit, cifsFindFreeBlock     *)
(* returns the lowest index whose bit is clear, reading no byte behind     *)
(* the vector; it never returns an index whose bit is set.                 *)
(***************************************************************************)
C2_FindFreeReturnsLowestClearBit ==
    (FoundRan /\ ClearBits(testBitVector) # {}) =>
        /\ ~found.unmapped
        /\ found.read <= ByteLen(testBitVector)
        /\ found.ret \in ClearBits(testBitVector)
        /\ \A k \in ClearBits(testBitVector) : found.ret <= k

\* a vector whose first byte is full and whose lowest clear bit is not the
\* first bit of its byte, found after a call changed the vector
C2_Witness ==
    /\ FoundRan
    /\ done # <<>>
    /\ testBitVector # vec0
    /\ found.ret > 8
    /\ found.ret % 8 # 0
    /\ ClearBits(testBitVector) # {}

(***************************************************************************)
(* C3: on a vector whose bits are all set, cifsFindFreeBlock reads no      *)
(* memory behind the vector and returns no block index.                    *)
(***************************************************************************)
C3_FindFreeOnFullVectorFails ==
    (FoundRan /\ ClearBits(testBitVector) = {}) =>
        /\ found.read <= ByteLen(testBitVector)
        /\ ~found.unmapped
        /\ found.ret \notin BlockNumbers

(***************************************************************************)
(* C4: cifsSetBit(i) then cifsClearBit(i) leaves bit i clear and every     *)
(* other bit as it was, so that cifsFindFreeBlock finds a clear bit at i   *)
(* or below; cifsClearBit(i) then cifsSetBit(i), where bit i was set,      *)
(* gives the vector back.                                                  *)
(***************************************************************************)
C4_SetClearRoundTrip ==
    /\ done = <<"set", "clear">> =>
          /\ ByteLen(testBitVector) = ByteLen(vec0)
          /\ \A k \in BitIndices(vec0) :
                BitIsSet(testBitVector, k) <=> (k # bitIndex0 /\ BitIsSet(vec0, k))
          /\ FoundRan => (~found.unmapped /\ found.ret <= bitIndex0)
    /\ (done = <<"clear", "set">> /\ BitIsSet(vec0, bitIndex0)) =>
          /\ ByteLen(testBitVector) = ByteLen(vec0)
          /\ \A k \in BitIndices(vec0) :
                BitIsSet(testBitVector, k) <=> BitIsSet(vec0, k)

\* set then clear of a bit that was set, in a byte with other bits set, and
\* the bit is then the one cifsFindFreeBlock finds
C4_Witness ==
    /\ done = <<"set", "clear">>
    /\ BitIsSet(vec0, bitIndex0)
    /\ bitIndex0 > 8
    /\ FoundRan
    /\ found.ret = bitIndex0

(***************************************************************************)
(* C5: right after cifsCreateFileSystem the bits of the blocks             *)
(* 0 .. bitvectorBlocks+2 are set and all others are clear, and            *)
(* cifsFindFreeBlock returns bitvectorBlocks+3.                            *)
(***************************************************************************)
C5_FreshVolumeBitvector ==
    last.op = "cifsCreateFileSystem" =>
        /\ \A i \in BlockNumbers :
              BitIsSet(bitvector, i) <=> (i <= bitvectorBlocks + 2)
        /\ cifsFindFreeBlock(bitvector, <<>>).ret = bitvectorBlocks + 3

(***************************************************************************)
(* C6: no two descriptors made by cifsCreateFile have the same identifier, *)
(* none has the root's, and the root folder's identifier is 0.             *)
(***************************************************************************)
C6_UniqueIdentifiers ==
    /\ \A i, j \in 1..Len(created) :
          i # j => created[i].identifier # created[j].identifier
    /\ \A i \in 1..Len(created) : created[i].identifier # 0
    /\ VolumeMade => RootDescriptor.identifier = 0

(***************************************************************************)
(* C7: on a mounted volume cifsNextUniqueIdentifier never decreases, and   *)
(* a cifsCreateFile that returns CIFS_NO_ERROR leaves it one greater than  *)
(* it was.                                                                 *)
(***************************************************************************)
C7_CounterAdvances ==
    [][ /\ (Mounted /\ Mounted') =>
              superblock'.cifsNextUniqueIdentifier >= superblock.cifsNextUniqueIdentifier
        /\ (cifsCreateFile /\ last'.result = "CIFS_NO_ERROR") =>
              superblock'.cifsNextUniqueIdentifier
                  = superblock.cifsNextUniqueIdentifier + 1 ]_vars

(***************************************************************************)
(* C8: cifsCreateFile returns CIFS_OPEN_ERROR when the folder it creates   *)
(* in (the root, on a volume that holds nothing else) is not in the        *)
(* calling process's list of open files.                                   *)
(***************************************************************************)
C8_CreateNeedsOpenFolder ==
    (last.op = "cifsCreateFile" /\ ~CallerHasOpen(RootDescriptor.identifier)) =>
        last.result = "CIFS_OPEN_ERROR"

(***************************************************************************)
(* C9: a cifsCreateFile of the path that the call before it created        *)
(* returns CIFS_DUPLICATE_ERROR, and the names of the root folder's        *)
(* children are pairwise distinct.                                         *)
(***************************************************************************)
C9_DuplicateNameRefused ==
    [][ /\ ( /\ cifsCreateFile
             /\ last.op = "cifsCreateFile"
             /\ last.result = "CIFS_NO_ERROR"
             /\ last'.path = last.path ) =>
                last'.result = "CIFS_DUPLICATE_ERROR"
        /\ VolumeMade' => \A b, c \in RootChildren' :
              b # c => cifsReadBlock(volume', b).fileDescriptor.name
                          # cifsReadBlock(volume', c).fileDescriptor.name ]_vars

(***************************************************************************)
(* C10: after a cifsCreateFile(path, type) that returned CIFS_NO_ERROR,    *)
(* the descriptor it made has the type asked for and the leaf name of the  *)
(* path, and lies in a block of the volume whose bit is set and which the  *)
(* parent folder's index refers to.                                        *)
(***************************************************************************)
C10_CreateStoresDescriptor ==
    (last.op = "cifsCreateFile" /\ last.result = "CIFS_NO_ERROR") =>
        /\ last.fd.type = last.type
        /\ last.fd.name = LeafName(last.path)
        /\ \E b \in RootChildren :
              /\ cifsReadBlock(volume, b).fileDescriptor.identifier = last.fd.identifier
              /\ cifsReadBlock(volume, b).fileDescriptor.name = LeafName(last.path)
              /\ cifsReadBlock(volume, b).fileDescriptor.type = last.type
              /\ BitIsSet(bitvector, b)
              /\ \E e \in registry : e.fileDescriptor.identifier = last.fd.identifier

(***************************************************************************)
(* The registry and the sessions, as the claims on cifsOpenFile,           *)
(* cifsCloseFile and cifsDeleteFile speak of them.                         *)
(***************************************************************************)
\* the registry entries of a path: those whose descriptor has its last name
RegistryEntries(path) ==
    {e \in registry : e.fileDescriptor.name = LeafName(path)}

\* the session (open-file) entries of all processes, each with its process
SessionEntries ==
    UNION {{[pid |-> processList[n].pid, k |-> k,
             entry |-> processList[n].openFiles[k]] :
                k \in 1..Len(processList[n].openFiles)} :
              n \in 1..Len(processList)}

\* the session entries that refer to the file with this identifier
SessionsOf(identifier) ==
    {x \in SessionEntries : x.entry.identifier = identifier}

\* the bits of a mode_t permission mask
ModeBits(mode) == {k \in 0..8 : BitOf(mode, k) = 1}

\* the owner and the rights bitmask of the descriptor grant the access asked
\* for to the caller: the caller owns the file and asks for no more than the
\* rights hold
Permitted(descriptor, uid, desiredAccessRights) ==
    /\ descriptor.owner = uid
    /\ ModeBits(desiredAccessRights) \subseteq ModeBits(descriptor.accessRights)

(***************************************************************************)
(* C11: cifsOpenFile of a path that has no entry in the registry returns   *)
(* CIFS_NOT_FOUND_ERROR, adds no session entry and changes no reference    *)
(* count.  (The code: cifsOpenFile is a stub that returns CIFS_NO_ERROR.)  *)
(***************************************************************************)
C11_OpenUnknownPathNotFound ==
    [][ (cifsOpenFile /\ RegistryEntries(last'.path) = {}) =>
            /\ last'.result = "CIFS_NOT_FOUND_ERROR"
            /\ processList' = processList
            /\ registry' = registry ]_vars

\* a process holds the path open: a session entry refers to its registry
\* entry, or the call just made was a cifsOpenFile of it that returned
\* CIFS_NO_ERROR (no cifsCloseFile can have followed)
HeldOpen(path) ==
    \/ \E e \in RegistryEntries(path) : SessionsOf(e.fileDescriptor.identifier) # {}
    \/ /\ last.op = "cifsOpenFile"
       /\ last.result = "CIFS_NO_ERROR"
       /\ last.path = path

(***************************************************************************)
(* C12: no file or folder is referred to by more than one session entry,   *)
(* over all processes, and cifsOpenFile of a path that a process (the      *)
(* caller or another) holds open returns CIFS_OPEN_ERROR.                  *)
(***************************************************************************)
C12_SingleOpener ==
    [][ /\ \A x, y \in SessionEntries' :
              x.entry.identifier = y.entry.identifier => x = y
        /\ (cifsOpenFile /\ HeldOpen(last'.path)) =>
              last'.result = "CIFS_OPEN_ERROR" ]_vars

(***************************************************************************)
(* C13: cifsOpenFile of an existing file that no process holds open (the   *)
(* root folder of the volume) returns CIFS_ACCESS_ERROR and adds no        *)
(* session entry when the caller is not the owner of the descriptor or     *)
(* asks for access rights that the descriptor's rights bitmask lacks.      *)
(***************************************************************************)
C13_OpenChecksAccess ==
    [][ ( /\ cifsOpenFile
          /\ VolumeMade
          /\ last'.path = "/"
          /\ ~HeldOpen("/")
          /\ ~Permitted(RootDescriptor, fuseContext.uid, last'.access) ) =>
            /\ last'.result = "CIFS_ACCESS_ERROR"
            /\ processList' = processList ]_vars

(***************************************************************************)
(* C14: the reference count of every registry entry is the number of       *)
(* session entries that refer to its file, and is never negative; a        *)
(* cifsOpenFile that returns CIFS_NO_ERROR adds one session entry and      *)
(* raises the reference count of one registry entry by one, and a          *)
(* cifsCloseFile that returns CIFS_NO_ERROR takes one session entry away   *)
(* and lowers one reference count by one.                                  *)
(***************************************************************************)
C14_ReferenceCountMatchesSessions ==
    [][ /\ \A e \in registry' :
              /\ e.referenceCount >= 0
              /\ e.referenceCount
                    = Cardinality({x \in SessionEntries' :
                                     x.entry.identifier = e.fileDescriptor.identifier})
        /\ (cifsOpenFile /\ last'.result = "CIFS_NO_ERROR") =>
              /\ Cardinality(SessionEntries') = Cardinality(SessionEntries) + 1
              /\ \E e \in registry, f \in registry' :
                    /\ f.fileDescriptor.identifier = e.fileDescriptor.identifier
                    /\ f.referenceCount = e.referenceCount + 1
        /\ (cifsCloseFile /\ last'.result = "CIFS_NO_ERROR") =>
              /\ Cardinality(SessionEntries') = Cardinality(SessionEntries) - 1
              /\ \E e \in registry, f \in registry' :
                    /\ f.fileDescriptor.identifier = e.fileDescriptor.identifier
                    /\ f.referenceCount = e.referenceCount - 1 ]_vars

(***************************************************************************)
(* C15: cifsCloseFile of a handle that is not in the calling process's     *)
(* list of open files returns CIFS_ACCESS_ERROR and leaves the reference   *)
(* counts and the session lists as they were.                              *)
(***************************************************************************)
C15_CloseUnknownHandleRefused ==
    [][ ( /\ cifsCloseFile
          /\ \A f \in CallerOpenFiles : f.fileHandle # last'.handle ) =>
            /\ last'.result = "CIFS_ACCESS_ERROR"
            /\ registry' = registry
            /\ processList' = processList ]_vars

\* the entry of the path is in use: its reference count is positive, or a
\* process holds it open
InUse(path) ==
    \/ \E e \in RegistryEntries(path) : e.referenceCount > 0
    \/ HeldOpen(path)

\* the blocks of the file of a path below the root: its descriptor block and
\* the index or data block the descriptor refers to
BlocksOf(path) ==
    LET d == {b \in RootChildren :
                cifsReadBlock(volume, b).fileDescriptor.name = LeafName(path)}
    IN d \cup ({cifsReadBlock(volume, b).fileDescriptor.block_ref : b \in d}
                  \ {CIFS_INVALID_INDEX})

(***************************************************************************)
(* C16: cifsDeleteFile of an entry that is in use returns                  *)
(* CIFS_IN_USE_ERROR and frees nothing; of an entry that is not in use     *)
(* (any more), where it returns CIFS_NO_ERROR, it leaves the bits of the   *)
(* entry's descriptor, index and data blocks clear.                        *)
(***************************************************************************)
C16_DeleteOpenFileInUse ==
    [][ cifsDeleteFile =>
          /\ InUse(last'.path) =>
                /\ last'.result = "CIFS_IN_USE_ERROR"
                /\ bitvector' = bitvector
                /\ volume' = volume
          /\ (~InUse(last'.path) /\ last'.result = "CIFS_NO_ERROR") =>
                \A b \in BlocksOf(last'.path) : ~BitIsSet(bitvector', b) ]_vars

\* the folder of the path has a child: its index block has a slot in use,
\* or the two calls just made were a cifsCreateFile of the folder and a
\* cifsCreateFile of a path in it, both returning CIFS_NO_ERROR
HasChild(path) ==
    \/ \E b \in (IF path = "/" THEN {RootIndex}
                 ELSE {c \in RootChildren :
                         cifsReadBlock(volume, c).fileDescriptor.name = LeafName(path)}) :
          Slots(cifsReadBlock(volume, b).fileDescriptor.block_ref) # {}
    \/ /\ last.op = "cifsCreateFile"
       /\ last.result = "CIFS_NO_ERROR"
       /\ beforeCreate.stage = "created"
       /\ beforeCreate.path = last.path
       /\ beforeCreate.parentMade
       /\ ParentPath(last.path) = path

(***************************************************************************)
(* C17: cifsDeleteFile of a folder that has a child returns                *)
(* CIFS_NOT_EMPTY_ERROR and leaves the volume (the folder, its children),  *)
(* the bit vector and the registry as they were; and every live            *)
(* descriptor below the root refers to a parent that is a live folder      *)
(* descriptor.                                                             *)
(***************************************************************************)
C17_DeleteNonEmptyFolderRefused ==
    [][ /\ (cifsDeleteFile /\ HasChild(last'.path)) =>
              /\ last'.result = "CIFS_NOT_EMPTY_ERROR"
              /\ volume' = volume
              /\ bitvector' = bitvector
              /\ registry' = registry
        /\ (VolumeMade' /\ Mounted') =>
              \A b \in RootChildren' :
                 LET parent == cifsReadBlock(volume', b).fileDescriptor.parent_block_ref
                 IN /\ BitIsSet(bitvector', parent)
                    /\ IsDescriptor(cifsReadBlock(volume', parent))
                    /\ cifsReadBlock(volume', parent).type = CIFS_FOLDER_CONTENT_TYPE ]_vars

DescriptorsOf(path) ==
    {e.fileDescriptor : e \in RegistryEntries(path)}
    \cup {cifsReadBlock(volume, b).fileDescriptor :
             b \in {c \in RootChildren :
                      cifsReadBlock(volume, c).fileDescriptor.name = LeafName(path)}}

(***************************************************************************)
(* C19: when a process holds a file open with read and write access, and   *)
(* its cifsWriteFile of a content on the handle returned CIFS_NO_ERROR,    *)
(* the size of the file's descriptor is the length of the content, and a   *)
(* cifsReadFile on the same handle that returns CIFS_NO_ERROR gives the    *)
(* bytes written.                                                          *)
(***************************************************************************)
C19_WriteReadRoundTrip ==
    [][ ( /\ cifsReadFile
          /\ last.op = "cifsWriteFile"
          /\ last.result = "CIFS_NO_ERROR"
          /\ last.access = S_IRUSR_S_IWUSR
          /\ last.path \in Paths
          /\ last.pid = fuseContext.pid
          /\ last'.handle = last.handle
          /\ last'.result = "CIFS_NO_ERROR" ) =>
            /\ last'.buffer = last.buffer
            /\ \E d \in DescriptorsOf(last.path) : d.size = Len(last.buffer) ]_vars

\* no bit of the bit vector is clear: no block is free
NoFreeBlock(a) ==
    /\ ByteLen(a) > 0
    /\ \A k \in 0..(ByteLen(a) - 1) : ByteAt(a, k) = 255

(***************************************************************************)
(* C21: a cifsWriteFile of a content that needs a block, on a handle the   *)
(* caller holds with write access, made while the bit vector has no free   *)
(* block, returns CIFS_ALLOC_ERROR and leaves the bit vector and every     *)
(* block of the volume (the descriptor among them) as they were.           *)
(***************************************************************************)
C21_WriteFailsFastOnNoSpace ==
    [][ ( /\ cifsWriteFile
          /\ last'.access = S_IRUSR_S_IWUSR
          /\ Len(last'.buffer) > 0
          /\ NoFreeBlock(bitvector) ) =>
            /\ last'.result = "CIFS_ALLOC_ERROR"
            /\ bitvector' = bitvector
            /\ volume' = volume ]_vars

\* byte k of the bit vector as the volume holds it in its bit vector blocks
DiskBitvectorByte(k) ==
    LET blk == cifsReadBlock(volume, k \div CIFS_BLOCK_SIZE)
    IN IF blk.tag = "bytes" THEN ByteAt(blk.bytes, k % CIFS_BLOCK_SIZE) ELSE 0

\* bit i of the bit vector as the volume holds it
DiskBitIsSet(i) ==
    /\ i \div 8 < bitvectorBlocks * CIFS_BLOCK_SIZE
    /\ BitOf(DiskBitvectorByte(i \div 8), 7 - (i % 8)) = 1

(***************************************************************************)
(* C23: right after cifsMountFileSystem the bit vector in memory has every *)
(* byte of the bit vector blocks [0, bitvectorBlocks) of the volume, equal *)
(* bit for bit, so that the block a first cifsFindFreeBlock returns is     *)
(* not one the volume's bit vector has as occupied.                        *)
(***************************************************************************)
C23_MountLoadsBitvector ==
    ( /\ last.op = "cifsMountFileSystem"
      /\ last.result = "CIFS_NO_ERROR" ) =>
        /\ \A k \in 0..(bitvectorBlocks * CIFS_BLOCK_SIZE - 1) :
              /\ k < ByteLen(bitvector)
              /\ ByteAt(bitvector, k) = DiskBitvectorByte(k)
        /\ LET free == cifsFindFreeBlock(bitvector, <<>>)
           IN ~free.unmapped /\ ~DiskBitIsSet(free.ret)

\* the characters of the names the model uses, as a C string has them
NameBytes(name) ==
    IF name = "/" THEN <<47>>
    ELSE IF name = "a" THEN <<97>>
    ELSE IF name = "b" THEN <<98>>
    ELSE <<>>

\* An unsigned long is held as its ULongBytes bytes, the low byte first:
\* the arithmetic on it is arithmetic modulo 2^64.
ULongBytes == 8

RECURSIVE ULongFrom(_, _)
ULongFrom(n, k) ==
    IF k = 0 THEN <<>> ELSE <<n % 256>> \o ULongFrom(n \div 256, k - 1)

\* x * m + carry, the carry out of the high byte dropped
RECURSIVE ULongTimes(_, _, _)
ULongTimes(x, m, carry) ==
    IF x = <<>> THEN <<>>
    ELSE LET t == (Head(x) * m) + carry
         IN <<t % 256>> \o ULongTimes(Tail(x), m, t \div 256)

\* x + y + carry, the carry out of the high byte dropped
RECURSIVE ULongPlus(_, _, _)
ULongPlus(x, y, carry) ==
    IF x = <<>> THEN <<>>
    ELSE LET t == Head(x) + Head(y) + carry
         IN <<t % 256>> \o ULongPlus(Tail(x), Tail(y), t \div 256)

\* x % m for an m of at most 23 bits
RECURSIVE ULongMod(_, _)
ULongMod(x, m) ==
    IF x = <<>> THEN 0 ELSE ((ULongMod(Tail(x), m) * 256) + Head(x)) % m

\* x ^ c for an unsigned char c: the exclusive or touches the low byte only
XorLowByte(x, c) == [x EXCEPT ![1] = Xor8(@, c)]

\* while ((c = *str++) != '\0') hash = ((hash << 5) + hash) ^ c;
RECURSIVE HashLoop(_, _)
HashLoop(h, str) ==
    IF str = <<>> THEN h
    ELSE HashLoop(XorLowByte(ULongPlus(ULongTimes(h, 2 ^ 5, 0), h, 0), Head(str)),
                  Tail(str))

\* the slot of the registry a name hashes to
hash(str) == ULongMod(HashLoop(ULongFrom(5381, ULongBytes), str), CIFS_REGISTRY_SIZE)

\* a file handle is the index of the registry for the file (cifs.h:186)
HandleOfEntry(e) == hash(NameBytes(e.fileDescriptor.name))

\* the descriptor blocks reachable from the root of the volume, the root
\* folder's among them
LiveDescriptorBlocks == {RootIndex} \cup RootChildren

\* the registry entries that hold a copy of the descriptor in a block
EntriesOfBlock(b) ==
    {e \in registry : e.fileDescriptor = cifsReadBlock(volume, b).fileDescriptor}

(***************************************************************************)
(* C24: right after cifsMountFileSystem the registry has one entry, and    *)
(* only one, for every descriptor reachable from the root folder (the      *)
(* root folder's among them) and no other entry, and the entry of a        *)
(* descriptor below the root has as its parent file handle one that        *)
(* refers to the entry of the folder that holds it, which is in the        *)
(* registry as well (the folder is added before what it holds).            *)
(***************************************************************************)
C24_MountBuildsRegistry ==
    ( /\ last.op = "cifsMountFileSystem"
      /\ last.result = "CIFS_NO_ERROR" ) =>
        /\ \A b \in LiveDescriptorBlocks : Cardinality(EntriesOfBlock(b)) = 1
        /\ registry = UNION {EntriesOfBlock(b) : b \in LiveDescriptorBlocks}
        /\ \A b \in RootChildren : \A e \in EntriesOfBlock(b) :
              \E p \in EntriesOfBlock(e.fileDescriptor.parent_block_ref) :
                 /\ p.fileDescriptor.type = CIFS_FOLDER_CONTENT_TYPE
                 /\ e.parentFileHandle = HandleOfEntry(p)

(***************************************************************************)
(* C25: after every cifsCreateFile, cifsDeleteFile or cifsWriteFile that   *)
(* returned CIFS_NO_ERROR on the mounted volume, the registry has an entry *)
(* for each live descriptor of the volume and for nothing else, and the    *)
(* descriptor each entry holds equals the descriptor on the volume.        *)
(***************************************************************************)
C25_RegistryMirrorsVolume ==
    ( /\ Mounted
      /\ last.op \in {"cifsCreateFile", "cifsDeleteFile", "cifsWriteFile"}
      /\ last.result = "CIFS_NO_ERROR" ) =>
        /\ \A b \in LiveDescriptorBlocks : EntriesOfBlock(b) # {}
        /\ \A e \in registry :
              \E b \in LiveDescriptorBlocks :
                 e.fileDescriptor = cifsReadBlock(volume, b).fileDescriptor

\* the bit vector blocks of the volume that hold a bit in which two bit
\* vectors differ
BlocksOfChangedBits(a, b) ==
    {k \div CIFS_BLOCK_SIZE :
        k \in {j \in 0..(bitvectorBlocks * CIFS_BLOCK_SIZE - 1) :
                  ByteAt(a, j) # ByteAt(b, j)}}

(***************************************************************************)
(* C27: a cifsCreateFile, cifsDeleteFile or cifsWriteFile on the mounted   *)
(* volume writes the bit vector blocks that hold the bits it changed in    *)
(* memory and no other bit vector block, and when it has returned the bit  *)
(* vector blocks of the volume hold, byte for byte, the bit vector in      *)
(* memory.                                                                 *)
(***************************************************************************)
C27_BitvectorWrittenThrough ==
    [][ ( /\ Mounted /\ VolumeMade
          /\ cifsCreateFile \/ cifsDeleteFile \/ cifsWriteFile ) =>
            /\ \A k \in 0..(bitvectorBlocks * CIFS_BLOCK_SIZE - 1) :
                  /\ k < ByteLen(bitvector')
                  /\ ByteAt(bitvector', k) = DiskBitvectorByte(k)'
            /\ \A i \in 0..(bitvectorBlocks - 1) :
                  (cifsReadBlock(volume', i) # cifsReadBlock(volume, i))
                     => i \in BlocksOfChangedBits(bitvector, bitvector') ]_vars

(***************************************************************************)
(* C28: cifsUmountFileSystem writes the superblock in memory to the        *)
(* superblock block, and a cifsMountFileSystem that follows it starts with *)
(* the cifsNextUniqueIdentifier the superblock in memory had at the        *)
(* unmount, which is greater than every identifier given to a file before  *)
(* the unmount.                                                            *)
(***************************************************************************)
C28_CounterSurvivesRemount ==
    [][ /\ cifsUmountFileSystem =>
              cifsReadBlock(volume', CIFS_SUPERBLOCK_INDEX).sb = superblock
        /\ (cifsMountFileSystem /\ last.op = "cifsUmountFileSystem") =>
              /\ superblock'.cifsNextUniqueIdentifier
                    = superblock.cifsNextUniqueIdentifier
              /\ \A i \in 1..Len(created) :
                    created[i].identifier < superblock'.cifsNextUniqueIdentifier ]_vars

(***************************************************************************)
(* C29: when cifsCreateFileSystem has returned, every block index of the   *)
(* volume has its bit in the bit vector in memory, and that bit is in one  *)
(* of the bit vector blocks [0, bitvectorBlocks) of the volume with the    *)
(* value it has in memory: the bit vector blocks have at least as many     *)
(* bits as the volume has blocks.                                          *)
(***************************************************************************)
C29_BitvectorCoversVolume ==
    ( /\ last.op = "cifsCreateFileSystem"
      /\ last.result = "CIFS_NO_ERROR" ) =>
        /\ bitvectorBlocks * CIFS_BLOCK_SIZE * 8 >= superblock.cifsNumberOfBlocks
        /\ \A i \in 0..(superblock.cifsNumberOfBlocks - 1) :
              /\ i \in BitIndices(bitvector)
              /\ i \div 8 < bitvectorBlocks * CIFS_BLOCK_SIZE
              /\ DiskBitIsSet(i) <=> BitIsSet(bitvector, i)

(***************************************************************************)
(* C30: CIFS_INVALID_INDEX is the number of blocks the superblock of the   *)
(* volume records (one past the last valid block index) and is a value of  *)
(* CIFS_INDEX_TYPE as it stands; it is no block cifsFindFreeBlock returns  *)
(* for the bit vector in memory, and no reference of a live descriptor or  *)
(* of the superblock to a block has it as its value.                       *)
(***************************************************************************)
C30_InvalidIndexIsBlockCount ==
    VolumeMade =>
        /\ CIFS_INVALID_INDEX
              = cifsReadBlock(volume, CIFS_SUPERBLOCK_INDEX).sb.cifsNumberOfBlocks
        /\ CIFS_INVALID_INDEX % IndexModulus = CIFS_INVALID_INDEX
        /\ Mounted =>
              LET free == cifsFindFreeBlock(bitvector, <<>>)
              IN ~free.unmapped /\ free.ret # CIFS_INVALID_INDEX
        /\ \A b \in ReachableBlocks : b # CIFS_INVALID_INDEX

(***************************************************************************)
(* C31: when cifsCreateFileSystem has returned, the root descriptor on the *)
(* volume (block bitvectorBlocks + 1) is a folder named "/" of size 0,     *)
(* its block_ref is bitvectorBlocks + 2, its file_block_ref is the number  *)
(* of its own block, and every slot of the root's index block holds        *)
(* CIFS_INVALID_INDEX.                                                     *)
(***************************************************************************)
C31_RootDescriptorOnFreshVolume ==
    ( /\ last.op = "cifsCreateFileSystem"
      /\ last.result = "CIFS_NO_ERROR" ) =>
        /\ RootIndex = bitvectorBlocks + 1
        /\ IsDescriptor(cifsReadBlock(volume, RootIndex))
        /\ RootDescriptor.type = CIFS_FOLDER_CONTENT_TYPE
        /\ RootDescriptor.name = "/"
        /\ RootDescriptor.size = 0
        /\ RootDescriptor.block_ref = bitvectorBlocks + 2
        /\ RootDescriptor.file_block_ref = RootIndex
        /\ LET idx == cifsReadBlock(volume, RootDescriptor.block_ref)
           IN /\ IsIndex(idx)
              /\ \A k \in 0..(CIFS_INDEX_SIZE - 1) : idx.index[k] = CIFS_INVALID_INDEX

(***************************************************************************)
(* C32: the root descriptor cifsCreateFileSystem writes and the descriptor *)
(* every cifsCreateFile builds, whatever calls went before, have as        *)
(* accessRights the umask of the context of the caller and as owner the    *)
(* uid of that context, as they are when the call is made.                 *)
(***************************************************************************)
C32_RightsAndOwnerFromContext ==
    [][ /\ cifsCreateFileSystem =>
              /\ RootDescriptor'.accessRights = fuseContext.umask
              /\ RootDescriptor'.owner = fuseContext.uid
        /\ cifsCreateFile =>
              /\ last'.fd.accessRights = fuseContext.umask
              /\ last'.fd.owner = fuseContext.uid ]_vars

\* two bit vectors have the same length and the same bits
SameBits(a, b) ==
    /\ ByteLen(a) = ByteLen(b)
    /\ \A k \in BitIndices(a) : BitIsSet(a, k) <=> BitIsSet(b, k)

(***************************************************************************)
(* C33: on every bit vector and every bit index i in it, cifsFlipBit       *)
(* inverts bit i and leaves every other bit and the length as they were,   *)
(* and a second cifsFlipBit of i gives the vector back; cifsSetBit leaves  *)
(* bit i set, cifsClearBit leaves it clear, both leave every other bit as  *)
(* it was, and a second call of either changes nothing.                    *)
(***************************************************************************)
C33_BitHelpersTouchOneBit ==
    [][ /\ TestFlipBit =>
              /\ ByteLen(testBitVector') = ByteLen(testBitVector)
              /\ \A k \in BitIndices(testBitVector) :
                    BitIsSet(testBitVector', k)
                       <=> (BitIsSet(testBitVector, k) # (k = bitIndex0))
        /\ (TestFlipBit /\ done = <<"flip">>) => SameBits(testBitVector', vec0)
        /\ TestSetBit =>
              /\ ByteLen(testBitVector') = ByteLen(testBitVector)
              /\ \A k \in BitIndices(testBitVector) :
                    BitIsSet(testBitVector', k)
                       <=> (k = bitIndex0 \/ BitIsSet(testBitVector, k))
        /\ (TestSetBit /\ done = <<"set">>) => SameBits(testBitVector', testBitVector)
        /\ TestClearBit =>
              /\ ByteLen(testBitVector') = ByteLen(testBitVector)
              /\ \A k \in BitIndices(testBitVector) :
                    BitIsSet(testBitVector', k)
                       <=> (k # bitIndex0 /\ BitIsSet(testBitVector, k))
        /\ (TestClearBit /\ done = <<"clear">>) =>
              SameBits(testBitVector', testBitVector) ]_vars

\* two flips of a bit beyond the first byte, in a byte that has other bits
\* set and other bits clear, have given the vector back
C33_Witness ==
    /\ done = <<"flip", "flip">>
    /\ bitIndex0 > 8
    /\ ByteAt(vec0, bitIndex0 \div 8) = 165
    /\ SameBits(testBitVector, vec0)

(***************************************************************************)
(* StoreSpec: cifsWriteBlock and cifsReadBlock on a volume file, driven    *)
(* the way main() of blockVolume.c drives them: the file is opened with    *)
(* "w+", blocks are written and read, the file is closed, opened again     *)
(* with "rw+" and read.  `last' is the call just made, with the latest     *)
(* cifsWriteBlock since the file was made carried along in `written', and  *)
(* in `reopened' whether the file was opened again since that write.       *)
(***************************************************************************)
MaxStoreBlock == 2

StoreBlocks == 0..MaxStoreBlock

\* memset(buf, 'a' + i, BLOCK_SIZE) for i = 0, 1, and a block of two parts
StoreBuffers ==
    {[tag |-> "bytes", bytes |-> Filled(CIFS_BLOCK_SIZE, 97)],
     [tag |-> "bytes", bytes |-> Filled(CIFS_BLOCK_SIZE, 98)],
     [tag |-> "bytes", bytes |-> Store(Filled(CIFS_BLOCK_SIZE, 0), 1, 104)]}

\* what malloc(CIFS_BLOCK_SIZE) may hold when fread has read nothing into it
GarbageBlock ==
    {ZeroBlock, [tag |-> "bytes", bytes |-> Filled(CIFS_BLOCK_SIZE, 165)]}

NoWrite == [blockNumber |-> CIFS_INVALID_INDEX, content |-> ZeroBlock]

StoreCall(op, blockNumber, content, len, written, reopened) ==
    [op |-> op, blockNumber |-> blockNumber, content |-> content, len |-> len,
     written |-> written, reopened |-> reopened]

\* the number of blocks of the volume file: up to its last byte written
FileBlocks(vol) ==
    IF DOMAIN vol = {} THEN 0
    ELSE (CHOOSE b \in DOMAIN vol : \A c \in DOMAIN vol : c <= b) + 1

StoreInit ==
    /\ FsIdle
    /\ BitIdle

\* fopen(name, "w+"): the file is made, or truncated
StoreCreate ==
    /\ cifsVolume # "open"
    /\ volume' = [b \in {} |-> ZeroBlock]
    /\ cifsVolume' = "open"
    /\ last' = StoreCall("fopen w+", CIFS_INVALID_INDEX, ZeroBlock, 0, NoWrite, FALSE)
    /\ UNCHANGED bitVars
    /\ UNCHANGED <<context, superblock, bitvector, registry, processList,
                   fuseContext, procUmask, clock, created, beforeCreate>>

\* fopen(name, "rw+"): the file is opened as it is, for reading and writing
StoreReopen ==
    /\ cifsVolume = "closed"
    /\ cifsVolume' = "open"
    /\ last' = StoreCall("fopen rw+", CIFS_INVALID_INDEX, ZeroBlock, 0, last.written,
                        TRUE)
    /\ UNCHANGED bitVars
    /\ UNCHANGED <<volume, context, superblock, bitvector, registry, processList,
                   fuseContext, procUmask, clock, created, beforeCreate>>

StoreClose ==
    /\ cifsVolume = "open"
    /\ cifsVolume' = "closed"
    /\ last' = StoreCall("fclose", CIFS_INVALID_INDEX, ZeroBlock, 0, last.written,
                        last.reopened)
    /\ UNCHANGED bitVars
    /\ UNCHANGED <<volume, context, superblock, bitvector, registry, processList,
                   fuseContext, procUmask, clock, created, beforeCreate>>

\* len = fwrite(content, 1, CIFS_BLOCK_SIZE, cifsVolume); return len;
\* (cifsCheckIOError ends the program when less was written)
StoreWriteBlock ==
    /\ cifsVolume = "open"
    /\ \E blockNumber \in StoreBlocks, content \in StoreBuffers :
          /\ volume' = cifsWriteBlock(volume, content, blockNumber)
          /\ last' = StoreCall("cifsWriteBlock", blockNumber, content,
                               CIFS_BLOCK_SIZE,
                               [blockNumber |-> blockNumber, content |-> content],
                               FALSE)
    /\ UNCHANGED bitVars
    /\ UNCHANGED <<cifsVolume, context, superblock, bitvector, registry,
                   processList, fuseContext, procUmask, clock, created,
                   beforeCreate>>

\* content = malloc(CIFS_BLOCK_SIZE); len = fread(content, ...); return content;
\* behind the end of the file fread reads nothing and content stays as it was
StoreReadBlock ==
    /\ cifsVolume = "open"
    /\ \E blockNumber \in StoreBlocks, garbage \in GarbageBlock :
          last' = IF blockNumber < FileBlocks(volume)
                  THEN StoreCall("cifsReadBlock", blockNumber,
                                 cifsReadBlock(volume, blockNumber),
                                 CIFS_BLOCK_SIZE, last.written, last.reopened)
                  ELSE StoreCall("cifsReadBlock", blockNumber, garbage, 0,
                                 last.written, last.reopened)
    /\ UNCHANGED bitVars
    /\ UNCHANGED <<volume, cifsVolume, context, superblock, bitvector, registry,
                   processList, fuseContext, procUmask, clock, created,
                   beforeCreate>>

StoreNext ==
    \/ StoreCreate
    \/ StoreReopen
    \/ StoreClose
    \/ StoreWriteBlock
    \/ StoreReadBlock

StoreSpec == StoreInit /\ [][StoreNext]_vars

(***************************************************************************)
(* C34: cifsWriteBlock(c, b) returns CIFS_BLOCK_SIZE and leaves every      *)
(* other block of the volume file as it was; a cifsReadBlock(b) made after *)
(* it, with no other write in between, returns a full block that is c,     *)
(* also when the file was closed and opened again in between.              *)
(***************************************************************************)
C34_BlockStoreRoundTrip ==
    [][ /\ StoreWriteBlock =>
              /\ last'.len = CIFS_BLOCK_SIZE
              /\ \A b \in StoreBlocks \ {last'.blockNumber} :
                    b < FileBlocks(volume) =>
                       cifsReadBlock(volume', b) = cifsReadBlock(volume, b)
        /\ (StoreReadBlock /\ last'.blockNumber = last.written.blockNumber) =>
              /\ last'.len = CIFS_BLOCK_SIZE
              /\ last'.content = last.written.content ]_vars

\* block 1 read back after the file was closed and opened again, while the
\* block before it holds something else
C34_Witness ==
    /\ last.op = "cifsReadBlock"
    /\ last.reopened
    /\ last.blockNumber = 1
    /\ last.written.blockNumber = 1
    /\ last.content = last.written.content
    /\ 0 \in DOMAIN volume
    /\ volume[0] # last.content

(***************************************************************************)
(* HashSpec: hash applied to names: every string of up to MaxNameLen       *)
(* characters drawn from HashChars, and the strings of one character       *)
(* repeated up to LongNameLen times, which are long enough for the         *)
(* unsigned long to wrap.  Each name is hashed, and hashed once more:       *)
(* `last' is the name to hash, then the call just made.                    *)
(***************************************************************************)
MaxNameLen == 3

LongNameLen == 12

\* '/', '.', 'a', 'b' and a character above 0x7F
HashChars == {47, 46, 97, 98, 200}

RECURSIVE Repeated(_, _)
Repeated(c, n) == IF n = 0 THEN <<>> ELSE <<c>> \o Repeated(c, n - 1)

HashStrings ==
    UNION {[1..n -> HashChars] : n \in 0..MaxNameLen}
    \cup {Repeated(c, n) : c \in HashChars, n \in 1..LongNameLen}

HashInit ==
    /\ volume = [b \in {} |-> ZeroBlock]
    /\ cifsVolume = "null"
    /\ context = "null"
    /\ superblock = NoSuperblock
    /\ bitvector = NoBytes
    /\ registry = {}
    /\ processList = <<>>
    /\ fuseContext \in {c \in Contexts : c.uid = 1001}
    /\ procUmask \in InheritedUmasks
    /\ clock = 0
    /\ \E str \in HashStrings : last = [op |-> "none", str |-> str, ret |-> 0]
    /\ created = <<>>
    /\ beforeCreate = NoSnapshot
    /\ BitIdle

TestHash ==
    /\ last.op \in {"none", "hash"}
    /\ last' = [op |-> IF last.op = "none" THEN "hash" ELSE "hash again",
                str |-> last.str, ret |-> hash(last.str)]
    /\ UNCHANGED bitVars
    /\ UNCHANGED <<volume, cifsVolume, context, superblock, bitvector, registry,
                   processList, fuseContext, procUmask, clock, created,
                   beforeCreate>>

HashNext == TestHash

HashSpec == HashInit /\ [][HashNext]_vars

\* hash * 33 + c for every character, from 5381 on, modulo 2^64
RECURSIVE TimesThirtyThreePlus(_, _)
TimesThirtyThreePlus(h, str) ==
    IF str = <<>> THEN h
    ELSE TimesThirtyThreePlus(
             ULongPlus(ULongTimes(h, 33, 0), ULongFrom(Head(str), ULongBytes), 0),
             Tail(str))

(***************************************************************************)
(* C35: for every name, the empty one among them, hash returns a value in  *)
(* 0 .. CIFS_REGISTRY_SIZE - 1 that is the same for the same characters,   *)
(* and the value is that of starting from 5381, replacing hash by          *)
(* hash * 33 + c (modulo 2^64) for each character c, and reducing the      *)
(* result modulo CIFS_REGISTRY_SIZE.                                       *)
(***************************************************************************)
C35_HashIsTimes33PlusChar ==
    [][ TestHash =>
          /\ last'.ret \in 0..(CIFS_REGISTRY_SIZE - 1)
          /\ last.op = "hash" => last'.ret = last.ret
          /\ last'.ret
                = ULongMod(TimesThirtyThreePlus(ULongFrom(5381, ULongBytes),
                                                last'.str),
                           CIFS_REGISTRY_SIZE) ]_vars

====
